---- MODULE Spec2Model ----
(***************************************************************************)
(* Per-frame state machine of the droid in src/src/main.rs (main loop,     *)
(* lines 153-288): one action per match arm of `match state`.              *)
(*                                                                         *)
(* vy is an f32 in the source.  Every value it takes is a multiple of      *)
(* 2^-26 (4.0, 0.3f32 and 0.2f32 are, and IEEE rounding keeps that), so vy *)
(* is modelled by the integer vy * 2^26 and additions are rounded to the   *)
(* nearest f32 (ties to even) exactly as the hardware/soft-float does.     *)
(***************************************************************************)
EXTENDS Integers, FiniteSets

VARIABLES
    state,    \* main.rs:141  0 idle, 1 jump prep, 2 jumping, 3 second prep, 4 second jump
    vy,       \* main.rs:143  f32 vertical speed, in units of 2^-26
    dx,       \* main.rs:84
    dy,       \* main.rs:84
    f,        \* main.rs:146  frame counter
    ch,       \* main.rs:148  character shown while idle / walking
    wstate,   \* main.rs:150  walk state
    hflip,    \* droid_object horizontal flip
    sprite,   \* droid_object sprite (argument of the last sprite_for_char)
    btn,      \* ButtonController: buttons held at the last input.update()
    last,     \* history: what the last pass of the loop body started from and did
    since,    \* history: ticks since a jump press was last accepted (saturating)
    impulses, \* history: launches (vy = 4.0) since state was last 0
    walkRun,  \* history: length of the current run of "only RIGHT held" ticks
    runIdle,  \* history: state was 0 at the end of every tick of that run
    changes,  \* history: number of ticks on which the held buttons changed
    moves,    \* history: number of ticks on which LEFT/RIGHT moved the droid
    keys      \* the buttons the player uses in this run (never changes)

vars == <<state, vy, dx, dy, f, ch, wstate, hflip, sprite, btn,
          last, since, impulses, walkRun, runIdle, changes, moves, keys>>

----------------------------------------------------------------------------
(* Bounds of the exploration *)

\* Runs with all buttons change the held buttons on at most MaxChanges ticks and
\* move the droid sideways on at most MaxMoves ticks; runs with the jump button
\* alone change it on at most MaxTaps ticks.
MaxChanges == 2
MaxMoves == 6
MaxTaps == 5

(* Program constants *)

WIDTH == 240
LeftEdge == 0 - 16
GroundY == 120
AppleX == 160
AppleHalf == 12
AppleRise == 13
WalkFrames == 5
PrepFrames == 3

(* f32 constants in units of 2^-26 *)
Unit == 67108864
JumpVy_Weak == 2 * Unit

JumpVy == 4 * Unit

Gravity == 20132660
Assist == 13421773
AssistMin == Unit \div 2

Buttons == {"UP", "LEFT", "RIGHT"}

----------------------------------------------------------------------------
(* f32 arithmetic *)

Abs(n) == IF n < 0 THEN 0 - n ELSE n

Sgn(n) == IF n < 0 THEN 0 - 1 ELSE 1

\* spacing of the f32 numbers around magnitude a (a in units of 2^-26)
Ulp(a) ==
    IF a < 16777216 THEN 1
    ELSE IF a < 33554432 THEN 2
    ELSE IF a < 67108864 THEN 4
    ELSE IF a < 134217728 THEN 8
    ELSE IF a < 268435456 THEN 16
    ELSE IF a < 536870912 THEN 32
    ELSE IF a < 1073741824 THEN 64
    ELSE 128

\* round to nearest f32, ties to even
F32Round(n) ==
    LET a == Abs(n)
        u == Ulp(a)
        q == a \div u
        r == a % u
        up == (2 * r > u) \/ (2 * r = u /\ q % 2 = 1)
    IN  Sgn(n) * (IF up THEN q + 1 ELSE q) * u

F32Add(a, b) == F32Round(a + b)

F32Sub(a, b) == F32Round(a - b)

Trunc_Floor(v) == v \div Unit

\* `vy as i32`: truncation toward zero
Trunc(v) == Sgn(v) * (Abs(v) \div Unit)

----------------------------------------------------------------------------
(* Geometry *)

a_top_y == GroundY - AppleRise

InAxRange(x) == (AppleX - AppleHalf) <= x /\ x <= (AppleX + AppleHalf)

----------------------------------------------------------------------------
(* Input *)

IsPressed(b, k) == k \in b

IsJustPressed(b, k) == k \in b /\ k \notin btn

IsJustReleased(b, k) == k \notin b /\ k \in btn

Walking(b) == IsPressed(b, "LEFT") \/ IsPressed(b, "RIGHT")

\* the button sets input.update() may report: the D-pad cannot hold LEFT and
\* RIGHT together, and the held buttons change a bounded number of times
InputOk(b) ==
    /\ b \subseteq keys
    /\ ~({"LEFT", "RIGHT"} \subseteq b)
    /\ b # btn => changes < (IF keys = {"UP"} THEN MaxTaps ELSE MaxChanges)

MoveOk(b) == Walking(b) => moves < MaxMoves

----------------------------------------------------------------------------
(* Pieces of the loop body *)

\* main.rs:49-58  the sprite shown for a character code
sprite_for_char(c) ==
    CASE c = 2 -> "WALKING0"
      [] c = 4 -> "WALKING2"
      [] c = 6 -> "JUMPING0"
      [] c = 8 -> "JUMPING1"
      [] c = 10 -> "JUMPING2"
      [] OTHER -> "IDLE0"

\* main.rs:168-175 / 245-252  dx after the LEFT and RIGHT steps
StepX(x, b) ==
    LET x1 == IF IsPressed(b, "LEFT") THEN x - 1 ELSE x
    IN  IF IsPressed(b, "RIGHT") THEN x1 + 1 ELSE x1

\* main.rs:170,174 / 247,251  set_hflip
StepFlip(h, b) ==
    LET h1 == IF IsPressed(b, "LEFT") THEN TRUE ELSE h
    IN  IF IsPressed(b, "RIGHT") THEN FALSE ELSE h1

WrapX_LowOnly(x) == IF x < LeftEdge THEN WIDTH ELSE x

\* main.rs:176-178 and 186-188 / 253-258  the two wrap tests, in source order
WrapX(x) ==
    LET x1 == IF x < LeftEdge THEN WIDTH ELSE x
    IN  IF WIDTH < x1 THEN LeftEdge ELSE x1

WalkDue_Early(n) == WalkFrames <= n

\* main.rs:192  the walk counter has passed its threshold
WalkDue(n) == WalkFrames < n

WalkNext_PoseBehind(w) ==
    CASE w = 0 -> [wstate |-> 1, ch |-> 0]
      [] w = 1 -> [wstate |-> 2, ch |-> 2]
      [] w = 2 -> [wstate |-> 3, ch |-> 0]
      [] OTHER -> [wstate |-> 0, ch |-> 4]

\* main.rs:193-210  next walk state and its character
WalkNext(w) ==
    CASE w = 0 -> [wstate |-> 1, ch |-> 2]
      [] w = 1 -> [wstate |-> 2, ch |-> 0]
      [] w = 2 -> [wstate |-> 3, ch |-> 4]
      [] OTHER -> [wstate |-> 0, ch |-> 0]

OffLedge_LeftOnly(x, y) == y = a_top_y /\ x < AppleX - AppleHalf

OffLedge_Exclusive(x, y) ==
    y = a_top_y /\ ~((AppleX - AppleHalf) <= x /\ x < (AppleX + AppleHalf))

\* main.rs:214  the droid stands at apple height beside the apple
OffLedge(x, y) == y = a_top_y /\ ~InAxRange(x)

PrepDone_Late(n) == PrepFrames + 1 < n

\* main.rs:229  the jump preparation is over
PrepDone(n) == PrepFrames < n

\* main.rs:231-235  the state a launch leads to
LaunchState(s) == IF s = 1 THEN 2 ELSE 4

CanDoubleJump_Again(s) == s \in {2, 4}

CanDoubleJump_Never(s) == FALSE

\* main.rs:238  the states in which a jump press starts the second jump
CanDoubleJump(s) == s = 2

Assisted_WhileRising(v, b) ==
    IF 0 < v /\ IsPressed(b, "UP") THEN F32Add(v, Assist) ELSE v

\* main.rs:259-261  hang-time assist
Assisted(v, b) ==
    IF AssistMin < v /\ IsPressed(b, "UP") THEN F32Add(v, Assist) ELSE v

\* main.rs:262  dy -= vy as i32
Integrate(y, v) == y - Trunc(v)

HitsCeiling_Late(y) == y < 0 - 1

\* main.rs:268  the droid has left the screen through the top
HitsCeiling(y) == y < 0

LandsOnApple_AboveGround(v, x, y) ==
    v < 0 /\ InAxRange(x) /\ a_top_y < y /\ y <= GroundY

\* main.rs:272  landing on the apple
LandsOnApple(v, x, y) == v < 0 /\ InAxRange(x) /\ a_top_y < y

SnapToApple_Keep(y) == y

\* main.rs:274  dy on the apple
SnapToApple(y) == a_top_y

LandsOnGround_Late(y) == GroundY + 1 < y

LandsOnGround_Reversed(y) == y < GroundY

\* main.rs:277  landing on the ground
LandsOnGround(y) == GroundY < y

\* main.rs:279  dy on the ground
SnapToGround(y) == GroundY

AfterGravity_Weak(v) == F32Sub(v, Assist)

AfterGravity_Skipped(v) == v

AfterGravity_Upward(v) == F32Add(v, Gravity)

\* main.rs:283  vy -= 0.3
AfterGravity(v) == F32Sub(v, Gravity)

----------------------------------------------------------------------------
(* History variables *)

SinceCap == PrepFrames + 2
RunCap == WalkFrames + 2

Min(a, b) == IF a < b THEN a ELSE b

\* what the pass of the loop body that ends now started from, and the values
\* it had after movement (and, in the air, after integration and the top
\* clamp), i.e. right before the ledge test (214) or the landing tests (272)
Record(arm, b, mx, my, mv, fired) ==
    [arm |-> arm, state |-> state, vy |-> vy, dx |-> dx, dy |-> dy, f |-> f,
     ch |-> ch, wstate |-> wstate, hflip |-> hflip, prev |-> btn,
     mx |-> mx, my |-> my, mv |-> mv, fired |-> fired]

History(arm, b, mx, my, mv, fired, accepted, launched, moved, newState) ==
    /\ last' = Record(arm, b, mx, my, mv, fired)
    /\ since' = IF accepted THEN 0 ELSE Min(since + 1, SinceCap)
    /\ impulses' = IF newState = 0 THEN 0
                   ELSE IF launched THEN impulses + 1 ELSE impulses
    /\ walkRun' = IF b = {"RIGHT"} /\ state = 0 /\ "RIGHT" \notin btn THEN 1
                  ELSE IF b = {"RIGHT"} /\ walkRun > 0
                       THEN Min(walkRun + 1, RunCap)
                  ELSE 0
    /\ runIdle' = IF b = {"RIGHT"} /\ state = 0 /\ "RIGHT" \notin btn
                  THEN newState = 0
                  ELSE IF b = {"RIGHT"} /\ walkRun > 0
                       THEN runIdle /\ newState = 0
                  ELSE TRUE
    /\ changes' = IF b # btn THEN changes + 1 ELSE changes
    /\ moves' = IF moved THEN moves + 1 ELSE moves
    /\ keys' = keys

----------------------------------------------------------------------------
(* The loop body: input.update() and the match arm taken *)

\* main.rs:161-166
GroundedJump(b) ==
    /\ state = 0
    /\ IsJustPressed(b, "UP")
    /\ InputOk(b)
    /\ btn' = b
    /\ state' = 1
    /\ f' = 0
    /\ ch' = 0
    /\ UNCHANGED <<vy, dx, dy, wstate, hflip, sprite>>
    /\ History("GroundedJump", b, dx, dy, vy, {}, TRUE, FALSE, FALSE, 1)

\* main.rs:167-224
GroundedMove(b) ==
    /\ state = 0
    /\ ~IsJustPressed(b, "UP")
    /\ InputOk(b)
    /\ MoveOk(b)
    /\ btn' = b
    /\ LET x == WrapX(StepX(dx, b))
           fresh == IsJustPressed(b, "LEFT") \/ IsJustPressed(b, "RIGHT")
           let_go == IsJustReleased(b, "LEFT") \/ IsJustReleased(b, "RIGHT")
           w1 == IF fresh THEN 0 ELSE wstate
           f1 == IF fresh THEN 0 ELSE f
           c1 == IF let_go THEN 0 ELSE ch
           f2 == IF Walking(b) THEN f1 + 1 ELSE f1
           due == Walking(b) /\ WalkDue(f2)
           w2 == IF due THEN WalkNext(w1).wstate ELSE w1
           c2 == IF due THEN WalkNext(w1).ch ELSE c1
           f3 == IF due THEN 0 ELSE f2
           falls == OffLedge(x, dy)
       IN  /\ dx' = x
           /\ hflip' = StepFlip(hflip, b)
           /\ f' = f3
           /\ ch' = c2
           /\ wstate' = IF falls THEN 0 ELSE w2
           /\ vy' = IF falls THEN 0 ELSE vy
           /\ state' = IF falls THEN 2 ELSE 0
           /\ sprite' = IF falls THEN sprite ELSE sprite_for_char(c2)
           /\ dy' = dy
           /\ History("GroundedMove", b, x, dy, vy,
                      IF falls THEN {"fall"} ELSE {},
                      FALSE, FALSE, Walking(b), IF falls THEN 2 ELSE 0)

\* main.rs:225-237
PrepareJump(b) ==
    /\ state \in {1, 3}
    /\ InputOk(b)
    /\ btn' = b
    /\ sprite' = sprite_for_char(6)
    /\ f' = f + 1
    /\ LET go == PrepDone(f + 1)
       IN  /\ vy' = IF go THEN JumpVy ELSE vy
           /\ state' = IF go THEN LaunchState(state) ELSE state
           /\ History("PrepareJump", b, dx, dy, vy,
                      IF go THEN {"launch"} ELSE {},
                      FALSE, go, FALSE, IF go THEN LaunchState(state) ELSE state)
    /\ UNCHANGED <<dx, dy, ch, wstate, hflip>>

\* main.rs:238-242
DoubleJump(b) ==
    /\ CanDoubleJump(state)
    /\ state \in {2, 4}
    /\ IsJustPressed(b, "UP")
    /\ InputOk(b)
    /\ btn' = b
    /\ state' = 3
    /\ f' = 0
    /\ UNCHANGED <<vy, dx, dy, ch, wstate, hflip, sprite>>
    /\ History("DoubleJump", b, dx, dy, vy, {}, TRUE, FALSE, FALSE, 3)

\* main.rs:243-284
Airborne(b) ==
    /\ state \in {2, 4}
    /\ ~(CanDoubleJump(state) /\ IsJustPressed(b, "UP"))
    /\ InputOk(b)
    /\ MoveOk(b)
    /\ btn' = b
    /\ LET x == WrapX(StepX(dx, b))
           v1 == Assisted(vy, b)
           y1 == Integrate(dy, v1)
           top == HitsCeiling(y1)
           y2 == IF top THEN 0 ELSE y1
           v2 == IF top THEN 0 ELSE v1
           apple == LandsOnApple(v2, x, y2)
           y3 == IF apple THEN SnapToApple(y2) ELSE y2
           ground == LandsOnGround(y3)
           y4 == IF ground THEN SnapToGround(y3) ELSE y3
           s4 == IF apple \/ ground THEN 0 ELSE state
       IN  /\ dx' = x
           /\ hflip' = StepFlip(hflip, b)
           /\ sprite' = IF v1 < 0 THEN sprite_for_char(10) ELSE sprite_for_char(8)
           /\ dy' = y4
           /\ state' = s4
           /\ vy' = AfterGravity(v2)
           /\ History("Airborne", b, x, y2, v2,
                      (IF v1 # vy THEN {"assist"} ELSE {})
                        \cup (IF top THEN {"ceiling"} ELSE {})
                        \cup (IF apple THEN {"apple"} ELSE {})
                        \cup (IF ground THEN {"ground"} ELSE {}),
                      FALSE, FALSE, Walking(b), s4)
    /\ UNCHANGED <<f, ch, wstate>>

----------------------------------------------------------------------------
(* Initial states.  The loop starts at (120, 120), idle (main.rs:84, 141-150).
   The exploration also starts from the states the loop reaches from there
   when one direction is held for n ticks (and then let go, unless `held`):
   these are computed with the pieces of the walking arm above. *)

\* one tick of the walk counter while a direction stays held (main.rs:189-213)
WalkTick(p) ==
    IF WalkDue(p.f + 1)
    THEN [f |-> 0, wstate |-> WalkNext(p.wstate).wstate, ch |-> WalkNext(p.wstate).ch]
    ELSE [f |-> p.f + 1, wstate |-> p.wstate, ch |-> p.ch]

RECURSIVE WalkFrom(_, _)
WalkFrom(p, n) == IF n = 0 THEN p ELSE WalkFrom(WalkTick(p), n - 1)

\* the walk counter and walk state come back to (0, 0) every 4 * 6 ticks
WalkAfter(n) ==
    WalkFrom([f |-> 0, wstate |-> 0, ch |-> 0], n % (4 * (WalkFrames + 1)))

\* dx after n one-pixel steps from 120, wrapped as in WrapX (at most one wrap)
StartX(dir, n) ==
    LET x == IF dir = "RIGHT" THEN 120 + n ELSE 120 - n
    IN  IF x < LeftEdge THEN x + (WIDTH - LeftEdge + 1)
        ELSE IF WIDTH < x THEN x - (WIDTH - LeftEdge + 1)
        ELSE x

\* the droid after walking n ticks in direction dir from its first position
\* and letting go
Walked(dir, n) ==
    [state |-> 0, vy |-> 0, dx |-> StartX(dir, n), dy |-> GroundY,
     f |-> WalkAfter(n).f, ch |-> 0, wstate |-> WalkAfter(n).wstate,
     hflip |-> (dir = "LEFT"), sprite |-> sprite_for_char(0), btn |-> {}]

\* the droid standing on the apple: from Walked("RIGHT", 50), x = 170 under the
\* apple, a one-tick press of jump leads through arm 1 (4 ticks) and arm 2
\* (25 ticks: up to dy = 97, down past 107) to this state; vy is what the
\* landing tick left, -3.5 (f32)
OnApple ==
    [state |-> 0, vy |-> 0 - 234880976, dx |-> 170, dy |-> a_top_y,
     f |-> PrepFrames + 1, ch |-> 0, wstate |-> 0,
     hflip |-> FALSE, sprite |-> sprite_for_char(10), btn |-> {}]

\* the droid beside the apple in mid-air: from OnApple, three ticks of right
\* (the third, at x = 173, walks off the ledge: state 2, vy = 0) and one tick
\* with nothing held, which leaves dy alone and takes 0.3 (f32) off vy
OffApple ==
    [state |-> 2, vy |-> 0 - Gravity, dx |-> AppleX + AppleHalf + 1,
     dy |-> a_top_y, f |-> 3, ch |-> 0, wstate |-> 0,
     hflip |-> FALSE, sprite |-> sprite_for_char(8), btn |-> {}]

Starts ==
    { Walked("RIGHT", 0),      \* x = 120, as constructed
      Walked("RIGHT", 27),     \* x = 147, left of the apple
      Walked("RIGHT", 120),    \* x = 240, right edge
      OnApple }

InitWith(starts, ks, used) ==
    \E s \in starts :
        /\ state = s.state
        /\ vy = s.vy
        /\ dx = s.dx
        /\ dy = s.dy
        /\ f = s.f
        /\ ch = s.ch
        /\ wstate = s.wstate
        /\ hflip = s.hflip
        /\ sprite = s.sprite
        /\ btn = s.btn
        /\ last = [arm |-> "init", state |-> s.state, vy |-> s.vy, dx |-> s.dx,
                   dy |-> s.dy, f |-> s.f, ch |-> s.ch, wstate |-> s.wstate,
                   hflip |-> s.hflip, prev |-> s.btn,
                   mx |-> s.dx, my |-> s.dy, mv |-> s.vy, fired |-> {}]
        /\ since = SinceCap
        /\ impulses = 0
        /\ walkRun = 0
        /\ runIdle = TRUE
        /\ changes = used
        /\ moves = 0
        /\ keys = ks

InitFrom(starts, ks) == InitWith(starts, ks, 0)

Init == InitFrom(Starts, Buttons)

\* the droid as constructed, played with the jump button alone
InitJump == InitFrom({Walked("RIGHT", 0)}, {"UP"})

\* from x = 170 on the ground: used to check that OnApple is reached
InitUnderApple == InitFrom({Walked("RIGHT", 50)}, Buttons)

\* from the same place, played with the jump button alone
InitJumpUnderApple == InitFrom({Walked("RIGHT", 50)}, {"UP"})

\* under the apple on the ground, or falling beside the apple, played with the
\* jump button alone, which changes on fewer than MaxChanges ticks
InitJumpOrFall ==
    InitWith({Walked("RIGHT", 50), OffApple}, {"UP"}, MaxTaps - MaxChanges + 1)

Next ==
    \E b \in SUBSET Buttons :
        \/ GroundedJump(b)
        \/ GroundedMove(b)
        \/ PrepareJump(b)
        \/ DoubleJump(b)
        \/ Airborne(b)

Spec == Init /\ [][Next]_vars

SpecJump == InitJump /\ [][Next]_vars

SpecUnderApple == InitUnderApple /\ [][Next]_vars

SpecJumpUnderApple == InitJumpUnderApple /\ [][Next]_vars

\* the loop never stops: vblank.wait_for_vblank() returns once per frame, so
\* a tick that can be taken is taken
SpecFair == InitJumpOrFall /\ [][Next]_vars /\ WF_vars(Next)

\* reached under Spec
OffAppleReached ==
    /\ state = OffApple.state /\ vy = OffApple.vy /\ dx = OffApple.dx
    /\ dy = OffApple.dy /\ f = OffApple.f /\ ch = OffApple.ch
    /\ wstate = OffApple.wstate /\ hflip = OffApple.hflip
    /\ sprite = OffApple.sprite /\ btn = OffApple.btn

\* reached under SpecUnderApple
OnAppleReached ==
    /\ state = OnApple.state /\ vy = OnApple.vy /\ dx = OnApple.dx
    /\ dy = OnApple.dy /\ f = OnApple.f /\ ch = OnApple.ch
    /\ wstate = OnApple.wstate /\ hflip = OnApple.hflip
    /\ sprite = OnApple.sprite /\ btn = OnApple.btn

----------------------------------------------------------------------------
(* Properties.  `last` holds the values the pass of the loop body that has
   just ended started from; btn holds the buttons that pass read. *)

JumpPressed == "UP" \in btn /\ "UP" \notin last.prev

OnlyLeft == "LEFT" \in btn /\ "RIGHT" \notin btn

OnlyRight == "RIGHT" \in btn /\ "LEFT" \notin btn

\* the pass moved the droid sideways (arms 0 and 2 | 4)
MovedPass == last.arm \in {"GroundedMove", "Airborne"}

\* C1 as stated: whenever the droid is idle (state 0) at the end of a tick,
\* vy is 0.
C1_IdleAtRest == state = 0 => vy = 0

\* C1 amended: whenever the droid is idle at the end of a tick, vy is not
\* positive; on the tick of a landing it is negative (the landing does not
\* reset it and gravity is still applied).
C1_IdleNotRising ==
    state = 0 => (vy <= 0 /\ (last.arm = "Airborne" => vy < 0))

C1_Landed == state = 0 /\ last.arm = "Airborne" /\ vy < 0

\* C2: whenever the droid is idle at the end of a tick, dy is the ground
\* height (120) or the top of the apple (107).
C2_IdleHeight == state = 0 => dy \in {GroundY, a_top_y}

C2_LandedOnApple ==
    state = 0 /\ last.arm = "Airborne" /\ last.my # a_top_y /\ dy = a_top_y

\* C3: at the end of every tick dx is in [-16, WIDTH]; a tick that moves
\* left from -16 ends at WIDTH and one that moves right from WIDTH ends at -16.
C3_Wrap ==
    /\ LeftEdge <= dx /\ dx <= WIDTH
    /\ (MovedPass /\ OnlyLeft /\ last.dx = LeftEdge) => dx = WIDTH
    /\ (MovedPass /\ OnlyRight /\ last.dx = WIDTH) => dx = LeftEdge

C3_WrappedInAir ==
    last.arm = "Airborne" /\ OnlyLeft /\ last.dx = LeftEdge /\ dx = WIDTH

\* C4: between two idle states vy is set to 4.0 at most twice, the second
\* time only on the way 2 -> 3 -> 4; state 3 is entered from state 2 only,
\* and a tick that starts in state 4 ends in state 4 or 0, also when jump is
\* pressed on it.
C4_SingleBonusJump ==
    /\ impulses <= 2
    /\ ("launch" \in last.fired /\ impulses = 2) => (last.state = 3 /\ state = 4)
    /\ state = 3 => last.state \in {2, 3}
    /\ last.state = 3 => state \in {3, 4}
    /\ last.state = 4 => state \in {4, 0}

C4_PressInSecondJump ==
    last.state = 4 /\ JumpPressed /\ impulses = 2 /\ state = 4

\* two f32 values that differ by rounding only (less than 2^-20)
Near(a, b) == Abs(a - b) <= 64

\* vy at the start of the pass, with the 0.2 of the hang-time assist when it
\* was applied
Boosted == IF "assist" \in last.fired THEN last.vy + Assist ELSE last.vy

\* C5 as stated: on every tick that starts in state 2 or 4, vy ends 0.3
\* below its value at the start (plus 0.2 when the assist applied).
C5_GravityEveryAirTick ==
    (last.arm # "init" /\ last.state \in {2, 4}) => Near(vy, Boosted - Gravity)

\* C5 amended: on every tick that starts in state 2 or 4 and is not the tick
\* on which a jump press in state 2 starts the second preparation, vy ends
\* 0.3 below its value at the start (plus 0.2 when the assist applied), up to
\* f32 rounding; except that when dy passed the top of the screen on that
\* tick vy was zeroed first and ends at -0.3.
C5_GravityOnAirUpdate ==
    last.arm = "Airborne" =>
        IF "ceiling" \in last.fired
        THEN vy = 0 - Gravity
        ELSE Near(vy, Boosted - Gravity)

C5_CeilingTick ==
    last.arm = "Airborne" /\ "ceiling" \in last.fired /\ last.vy > Unit

\* C6: in an airborne tick where, after the integration of dy and the clamp
\* at the top, vy < 0, dx is within the apple and dy is below its top, the
\* tick ends idle on top of the apple -- also when dy is below the ground.
C6_AppleLanding ==
    (/\ last.arm = "Airborne"
     /\ last.mv < 0
     /\ InAxRange(last.mx)
     /\ last.my > a_top_y) => (dy = a_top_y /\ state = 0)

C6_AppleBeatsGround ==
    /\ last.arm = "Airborne"
    /\ last.mv < 0
    /\ InAxRange(last.mx)
    /\ last.my > GroundY
    /\ dy = a_top_y
    /\ state = 0

\* C7: a jump press while idle ends the tick in state 1 with f = 0; 1, 2 and
\* 3 ticks later the state is still 1, and 4 ticks later it is 2 with
\* vy = 4.0, whatever buttons are held meanwhile.
C7_JumpCharge ==
    /\ last.arm = "GroundedJump" => (state = 1 /\ f = 0 /\ since = 0)
    /\ (last.state = 1 /\ since <= PrepFrames) => state = 1
    /\ (last.state = 1 /\ since = PrepFrames + 1) => (state = 2 /\ vy = JumpVy)
    /\ last.state = 1 => since <= PrepFrames + 1

C7_Launched ==
    last.state = 1 /\ since = 4 /\ state = 2 /\ vy = 4 * Unit /\ impulses = 1

\* C8 as stated: from a fresh press of RIGHT while idle, wstate is 0 after
\* each of the first 5 ticks on which RIGHT alone is held and 1 after the 6th.
C8_WalkCadenceAlways ==
    /\ walkRun \in 1..5 => wstate = 0
    /\ walkRun = 6 => wstate = 1

\* C8 amended: the same, provided the droid is idle at the end of each of
\* those ticks (it does not walk off the apple during them).
C8_WalkCadence ==
    /\ (runIdle /\ walkRun \in 1..5) => wstate = 0
    /\ (runIdle /\ walkRun = 6) => wstate = 1

C8_SixthTick == runIdle /\ walkRun = 6 /\ wstate = 1 /\ state = 0

\* C9: a tick that starts idle without a jump press ends in state 2 with
\* vy = 0 and wstate = 0 if, after the move and the wrap, the droid is at the
\* height of the apple top and beside the apple; otherwise it ends idle.
C9_LedgeFall ==
    (last.arm # "init" /\ last.state = 0 /\ ~JumpPressed) =>
        IF dy = a_top_y /\ ~InAxRange(dx)
        THEN state = 2 /\ vy = 0 /\ wstate = 0
        ELSE state = 0

C9_WalkedOff ==
    last.arm = "GroundedMove" /\ dy = a_top_y /\ ~InAxRange(dx) /\ state = 2

\* C10: in an airborne tick where dy is below the ground after the
\* integration and the droid does not land on the apple, the tick ends idle
\* with dy = 120.
C10_GroundLanding ==
    (/\ last.arm = "Airborne"
     /\ last.my > GroundY
     /\ ~(last.mv < 0 /\ InAxRange(last.mx) /\ last.my > a_top_y))
        => (dy = GroundY /\ state = 0)

C10_LandedOnGround ==
    /\ last.arm = "Airborne"
    /\ last.my > GroundY
    /\ ~InAxRange(last.mx)
    /\ dy = GroundY
    /\ state = 0

\* C11: at the end of every tick dy is in [0, 120], in every state.
C11_VerticalClamp == 0 <= dy /\ dy <= GroundY

C11_ClampedAtTop ==
    last.arm = "Airborne" /\ "ceiling" \in last.fired /\ dy = 0 /\ last.dy > 0

\* the walk counter wrapped in this pass: the walk cycle moved on one phase
WalkStepped ==
    last.arm = "GroundedMove" /\ (OnlyLeft \/ OnlyRight) /\ f = 0

DirectionReleased ==
    \/ "LEFT" \in last.prev /\ "LEFT" \notin btn
    \/ "RIGHT" \in last.prev /\ "RIGHT" \notin btn

\* the pose the walk cycle shows in each phase
PoseOfPhase(w) == CASE w = 1 -> 2 [] w = 3 -> 4 [] OTHER -> 0

\* C12 as stated, for the two states at the ends of one tick: when a tick
\* leaves state, wstate and the sign of vy as they were, it leaves ch as it
\* was.
C12_PoseWithoutMemory ==
    (last.state = state /\ last.wstate = wstate /\ Sgn(last.vy) = Sgn(vy))
        => ch = last.ch

\* C12 amended: ch is one of the walk poses 0, 2, 4 and is a stored value: a
\* walk-cycle step sets it to the pose of the new phase, a jump press in state
\* 0 and a release of left or right without a step set it to 0, and every
\* other tick keeps the value it had.
C12_PoseHasMemory ==
    /\ ch \in {0, 2, 4}
    /\ (WalkStepped /\ state = 0) => ch = PoseOfPhase(wstate)
    /\ last.arm = "GroundedJump" => ch = 0
    /\ (last.arm = "GroundedMove" /\ ~WalkStepped /\ DirectionReleased) => ch = 0
    /\ ( /\ ~WalkStepped
         /\ last.arm # "GroundedJump"
         /\ ~(last.arm = "GroundedMove" /\ DirectionReleased) ) => ch = last.ch

\* left or right let go in the second phase: the pose falls back to 0 while
\* wstate stays 1
C12_ReleasedMidStride ==
    /\ last.arm = "GroundedMove" /\ DirectionReleased
    /\ state = 0 /\ last.state = 0
    /\ wstate = 1 /\ last.wstate = 1
    /\ last.ch = 2 /\ ch = 0

\* C13 as stated: whenever a tick changes state to 1, to 3 or to 0 (a landing
\* on the apple or on the ground), f is 0 at the end of that tick.
C13_TimerResetOnEntry ==
    (last.arm # "init" /\ last.state # state /\ state \in {0, 1, 3}) => f = 0

\* the part of C13 that the code keeps: f is 0 at the end of a tick that
\* enters state 1 or state 3
C13_TimerResetOnCharge ==
    (last.arm # "init" /\ last.state # state /\ state \in {1, 3}) => f = 0

\* a landing after a jump: f still holds the 4 counted during the charge
C13_LandedWithStaleTimer ==
    /\ last.arm = "Airborne" /\ state = 0
    /\ ("apple" \in last.fired \/ "ground" \in last.fired)
    /\ f = PrepFrames + 1

\* C14: a tick on which jump is just pressed in state 0 or state 2 leaves dx,
\* dy, vy, the facing and wstate as they were, whatever else is held; it sets
\* state to 1 (from 0) or 3 (from 2) and f to 0, sets ch to 0 from state 0 and
\* leaves ch alone from state 2.
C14_JumpPressPreempts ==
    (last.arm # "init" /\ last.state \in {0, 2} /\ JumpPressed) =>
        /\ dx = last.dx /\ dy = last.dy /\ vy = last.vy
        /\ hflip = last.hflip /\ wstate = last.wstate
        /\ state = (IF last.state = 0 THEN 1 ELSE 3)
        /\ f = 0
        /\ ch = (IF last.state = 0 THEN 0 ELSE last.ch)

\* jump pressed in mid-air, falling, with a direction held against the facing
C14_PressedWhileMoving ==
    /\ last.arm # "init" /\ last.state = 2 /\ JumpPressed
    /\ last.vy < 0
    /\ (("LEFT" \in btn /\ ~last.hflip) \/ ("RIGHT" \in btn /\ last.hflip))

\* C15: an airborne tick whose integration takes dy below 0 ends with dy = 0
\* and vy = -0.3, in the same state: the apple landing does not fire on it,
\* also when the droid is above the apple.
C15_CeilingClamp ==
    (last.arm = "Airborne" /\ "ceiling" \in last.fired) =>
        /\ dy = 0
        /\ last.mv = 0
        /\ "apple" \notin last.fired /\ "ground" \notin last.fired
        /\ state = last.state
        /\ vy = 0 - Gravity

\* the droid rising fast hits the top of the screen straight above the apple
C15_TopAboveApple ==
    /\ last.arm = "Airborne" /\ "ceiling" \in last.fired
    /\ InAxRange(dx) /\ last.vy > Unit /\ vy < 0

\* C16: an airborne tick moves dy by the integer part of vy (as it is after
\* the assist), dropped toward zero: the step has the direction of vy, its
\* size is the largest whole number not above |vy|, so it is 0 whenever
\* -1 < vy < 1 and 1 for a vy such as -1.3.  (On a tick that passes the top
\* of the screen dy is then set to 0.)
C16_TruncatesTowardZero ==
    (last.arm = "Airborne" /\ "ceiling" \notin last.fired) =>
        LET up == last.dy - last.my
            v == last.mv
        IN  /\ Abs(up) * Unit <= Abs(v)
            /\ Abs(v) < (Abs(up) + 1) * Unit
            /\ up * Sgn(v) >= 0

\* falling at a speed between 1 and 2 that is not a whole number: dy grows
\* by 1
C16_SlowFall ==
    /\ last.arm = "Airborne" /\ "ceiling" \notin last.fired
    /\ 0 - 2 * Unit < last.mv /\ last.mv < 0 - Unit
    /\ last.my = last.dy + 1

\* the hang-time assist is due: vy above 0.5 at the start of the tick and
\* jump held during it
AssistDue == last.vy > Unit \div 2 /\ "UP" \in btn

\* C17 as stated: on an airborne tick 0.2 is added to vy before the
\* integration exactly when vy > 0.5 at the start of the tick and jump is
\* held, and every tick on which it is added ends with vy 0.1 below its value
\* at the start.
C17_AssistNetLoss ==
    last.arm = "Airborne" =>
        /\ "assist" \in last.fired <=> AssistDue
        /\ AssistDue => Near(vy, last.vy + Assist - Gravity)

\* C17 amended: 0.2 is added exactly when vy > 0.5 at the start of the tick and
\* jump is held; vy is lower at the end of every such tick than at its start:
\* by 0.1, or, when the tick passes the top of the screen, down to -0.3.
C17_HangTimeAssist ==
    last.arm = "Airborne" =>
        /\ "assist" \in last.fired <=> AssistDue
        /\ "ceiling" \notin last.fired =>
               IF AssistDue THEN Near(last.mv, last.vy + Assist)
                            ELSE last.mv = last.vy
        /\ AssistDue =>
               /\ vy < last.vy
               /\ IF "ceiling" \in last.fired
                  THEN vy = 0 - Gravity
                  ELSE Near(vy, last.vy + Assist - Gravity)

\* jump held while rising at a speed of at most 0.5, and then while falling:
\* no assist
C17_HeldButSlow ==
    /\ last.arm = "Airborne" /\ "UP" \in btn
    /\ 0 < last.vy /\ last.vy <= Unit \div 2
    /\ last.mv = last.vy

\* the assist applied on the tick that passes the top of the screen
C17_AssistedIntoTop ==
    /\ last.arm = "Airborne" /\ AssistDue
    /\ "assist" \in last.fired /\ "ceiling" \in last.fired
    /\ vy = 0 - Gravity

\* C18: whenever the droid is charging a jump or in the air (state 1 to 4),
\* it is idle (state 0) at some later tick, whatever the jump button does:
\* held for ever, tapped, or pressed again in mid-air.
C18_EveryJumpEnds == (state # 0) ~> (state = 0)

\* a second jump made during a fall beside the apple has come down while jump
\* was held
C18_SecondJumpLanded ==
    /\ last.arm = "Airborne" /\ last.state = 4 /\ state = 0
    /\ dx = OffApple.dx /\ "UP" \in btn /\ "UP" \in last.prev

\* C19: at the end of every tick, a droid that is idle or charging its first
\* jump (state 0 or 1) at the height of the apple top is within the apple's x
\* range.
C19_OnAppleWithinSpan ==
    (state \in {0, 1} /\ dy = a_top_y) => InAxRange(dx)

\* a step to the right has brought the droid to the last x of the apple
C19_AtRightEdge ==
    /\ last.arm = "GroundedMove" /\ state = 0 /\ dy = a_top_y
    /\ dx = AppleX + AppleHalf /\ last.dx = dx - 1

\* C20: a tick that starts in state 1 or 3 leaves dx, dy, the facing and
\* wstate as they were, whatever is held; it leaves vy as it was, except the
\* launch tick, the 4th after the press, which sets vy to 4.0 and moves on to
\* state 2 (from 1) or 4 (from 3).
C20_ChargeFreezes ==
    (last.arm # "init" /\ last.state \in {1, 3}) =>
        /\ dx = last.dx /\ dy = last.dy
        /\ hflip = last.hflip /\ wstate = last.wstate
        /\ IF since = PrepFrames + 1
           THEN vy = 4 * Unit /\ state = last.state + 1
           ELSE vy = last.vy /\ state = last.state

\* the second charge, made while falling with a direction held against the
\* facing: the fall and the move are suspended
C20_ChargedInFall ==
    /\ last.arm # "init" /\ last.state = 3 /\ state = 3
    /\ last.vy < 0 /\ last.dy < GroundY
    /\ (("LEFT" \in btn /\ ~last.hflip) \/ ("RIGHT" \in btn /\ last.hflip))

====
